---------------------------- MODULE Spec2Model ----------------------------
(***************************************************************************)
(* Engine-rotation scheduling (MILP_Capstone).                             *)
(*                                                                         *)
(* main() loads the parameter set, build_model declares the binary and     *)
(* continuous variables with their linear constraints, warm_start writes   *)
(* Start hints on the binaries, and the solver then returns an assignment  *)
(* that satisfies every declared constraint.                               *)
(*                                                                         *)
(* The solver is modelled as fixing the variables of the horizon week by   *)
(* week and, inside a week, engine by engine (FixEngine) followed by the    *)
(* per-aircraft lease flags and the aggregate stock (CloseWeek).  Every     *)
(* constraint of build_model only mentions variables of its own week and   *)
(* of earlier weeks, so a constraint is tested as soon as its last         *)
(* variable is fixed; the states with week = H are exactly the complete    *)
(* schedules that satisfy the model.                                       *)
(***************************************************************************)
EXTENDS Integers, Sequences, FiniteSets, TLC

\* ---------------------------------------------------------------- bounds
NumAircraft == 2
NumExtra == 1
H == 4
MaxCalls == 2

\* rows the fleet file may hold for an aircraft: weekly rate of its operation,
\* ceiling of its family, cycles already flown by its engine.  The first row
\* leaves its engine room for exactly the whole horizon, the second forces it
\* off its aircraft in week 2.
FleetRows ==
    { [rate |-> 1, ceiling |-> H + 1, cycles |-> 1],
      [rate |-> 2, ceiling |-> 3, cycles |-> 0] }
\* the rows tried when only warm_start runs
WarmRows ==
    [rate : {1, 2}, ceiling : {3, 5}, cycles : {0, 1}]
\* values of params['d'] and params['M_max'] a caller of build_model passes
\* when the parameter set does not come from load_data
Durations == {1, 2}
BayCapacities == {0, 1}
\* values tried for params['LeaseCost'] and params['BuyCost']
Prices == {0, 1, 3}

\* --------------------------------------------------------- parameter set
S0 == 0
P_WB == 1..NumAircraft
n_aviones == NumAircraft
I_extra == (n_aviones + 1)..(n_aviones + NumExtra)
I_WB == (1..n_aviones) \cup I_extra
T == 1..H
NumEngines == n_aviones + NumExtra

\* Start attribute of a variable that never received a hint
GRB_UNDEFINED == -1

VARIABLES
    pc,         \* position of main()
    files,      \* TRUE iff the four required csv files exist
    well_formed,\* TRUE iff the files hold what load_data looks up in them
    c,          \* c[p]  weekly cycles of aircraft p
    C,          \* C[i]  cycle ceiling of engine i
    y0,         \* y0[i] initial cycles of engine i
    d,          \* maintenance duration in weeks
    M_max,      \* maintenance starts allowed per week
    a,          \* a[i][p][t] engine i installed on aircraft p in week t
    s,          \* s[i][t]   engine i in stock
    m,          \* m[i][t]   engine i starts maintenance
    r,          \* r[i][t]   engine i in maintenance
    y,          \* y[i][t]   accumulated cycles
    S,          \* S[t]      aggregate spare inventory
    ell,        \* ell[p][t] aircraft p leased
    buy_extra,  \* buy_extra[i][t] extra engine i bought in week t
    week,       \* number of weeks the solver has fixed completely
    eng,        \* number of engines fixed in the open week
    a_start,    \* Start hint of a[i,p,t]
    ell_start,  \* Start hint of ell[p,t]
    buy_start,  \* Start hint of buy_extra[i,t]
    ws_calls,   \* number of warm_start calls made so far
    SolCount,   \* model.SolCount, the number of solutions the solver holds
    calls,      \* the functions main() has called so far, in order
    status_printed  \* TRUE once main() printed the solver status

paramVars == <<files, well_formed, c, C, d, M_max>>
schedVars == <<a, s, m, r, y, S, ell, buy_extra, week, eng>>
hintVars == <<a_start, ell_start, buy_start, ws_calls>>
runVars == <<SolCount, calls, status_printed>>
vars == <<pc, paramVars, y0, schedVars, hintVars, runVars>>

\* ---------------------------------------------------------------- helpers
Max(D) == CHOOSE x \in D : \A z \in D : z <= x
Min(D) == CHOOSE x \in D : \A z \in D : x <= z

RECURSIVE SumFrom(_, _, _)
SumFrom(f, lo, hi) ==
    IF lo > hi THEN 0 ELSE f[lo] + SumFrom(f, lo + 1, hi)

\* quicksum over a generator whose index runs over a range of ids or weeks
quicksum(f) ==
    IF DOMAIN f = {} THEN 0 ELSE SumFrom(f, Min(DOMAIN f), Max(DOMAIN f))

\* M = max(C.values()) over the owned engines; extras get y0 = 0, C = M
ExtendC(Cown) ==
    [i \in I_WB |-> IF i \in I_extra THEN Max({Cown[j] : j \in P_WB}) ELSE Cown[i]]
ExtendY0(yown) ==
    [i \in I_WB |-> IF i \in I_extra THEN 0 ELSE yown[i]]

\* -------------------------------------------------- build_model: variables
ZeroA == [i \in I_WB |-> [p \in P_WB |-> [t \in T |-> 0]]]
ZeroIT == [i \in I_WB |-> [t \in T |-> 0]]
ZeroPT == [p \in P_WB |-> [t \in T |-> 0]]
ZeroBuy == [i \in I_extra |-> [t \in T |-> 0]]
ZeroT == [t \in T |-> 0]

buy_cum(i, t) == quicksum([tau \in 1..t |-> buy_extra[i][tau]])

\* ------------------------------------------------ build_model: constraints
\* 4.0 initial assignment in t = 1
init_assign(i) ==
    IF i <= n_aviones
    THEN /\ a[i][i][1] = 1
         /\ r[i][1] = 0
         /\ s[i][1] = 0
         /\ \A p \in P_WB : p # i => a[i][p][1] = 0
    ELSE /\ \A p \in P_WB : a[i][p][1] = 0
         /\ r[i][1] = 0
         /\ s[i][1] = 0

\* 4.1 written with <= : an engine may be in no state at all
exclusive_le(i, t) ==
    IF i \in I_extra
    THEN quicksum([p \in P_WB |-> a[i][p][t]]) + r[i][t] + s[i][t] <= buy_cum(i, t)
    ELSE quicksum([p \in P_WB |-> a[i][p][t]]) + r[i][t] + s[i][t] <= 1

\* 4.1 state of each engine in each week
exclusive(i, t) ==
    IF i \in I_extra
    THEN quicksum([p \in P_WB |-> a[i][p][t]]) + r[i][t] + s[i][t] = buy_cum(i, t)
    ELSE quicksum([p \in P_WB |-> a[i][p][t]]) + r[i][t] + s[i][t] = 1

\* 4.2 written with <= : an aircraft may have neither engine nor lease
coverage_le(p, t) ==
    quicksum([i \in I_WB |-> a[i][p][t]]) + ell[p][t] <= 1

\* 4.2 coverage
coverage(p, t) ==
    quicksum([i \in I_WB |-> a[i][p][t]]) + ell[p][t] = 1

\* 4.3 with the sum stopping one week early (range(max(1, t-d+1), t))
maint_duration_short(i, t) ==
    r[i][t] = quicksum([tau \in Max({1, t - d + 1})..(t - 1) |-> m[i][tau]])

\* 4.3 maintenance duration
maint_duration(i, t) ==
    r[i][t] = quicksum([tau \in Max({1, t - d + 1})..t |-> m[i][tau]])

\* 4.4 without the reset branch
cycles_rhs_noreset(i, t, expr) ==
    IF t = 1 THEN y0[i] + expr ELSE y[i][t - 1] + expr

\* 4.4 cycle accumulation with reset; expr is the gain of week t
cycles_rhs(i, t, expr) ==
    IF t = 1 THEN y0[i] + expr
    ELSE IF t <= d THEN y[i][t - 1] + expr
    ELSE (1 - m[i][t - d]) * (y[i][t - 1] + expr) + m[i][t - d] * expr

\* 4.5 with a strict inequality
cycle_limit_strict_lt(i, t) ==
    y[i][t] < C[i] + (IF i \in I_extra THEN Max({C[j] : j \in I_WB}) ELSE 0) * r[i][t]

\* 4.5 cycle limit, relaxed for an extra engine in maintenance
cycle_limit_strict(i, t) ==
    y[i][t] <= C[i] + (IF i \in I_extra THEN Max({C[j] : j \in I_WB}) ELSE 0) * r[i][t]

\* 4.6 capacity of the maintenance bay
capacity(t) ==
    quicksum([i \in I_WB |-> m[i][t]]) <= M_max

\* 4.7 aggregate stock flow
stock_rhs(t) ==
    IF t = 1
    THEN S0 + quicksum([i \in I_extra |-> buy_extra[i][1]])
    ELSE S[t - 1]
         + quicksum([i \in I_extra |-> buy_extra[i][t]])
         + quicksum([i \in {j \in I_WB : t - d > 0} |-> m[i][t - d]])

\* 4.8 with the loop starting one week late (T[2:])
continuity_from_week_3(i, p, t) ==
    t > 2 => a[i][p][t] >= a[i][p][t - 1] - m[i][t]

\* 4.8 continuity of the assignment
continuity(i, p, t) ==
    t > 1 => a[i][p][t] >= a[i][p][t - 1] - m[i][t]

\* 4.9 stock only once bought
no_stock_before_buy(i, t) == s[i][t] <= buy_cum(i, t)

\* 4.10 assignment only once bought
assign_only_if_bought(i, p, t) == a[i][p][t] <= buy_cum(i, t)

\* 4.11 that accepts stock as a use of the bought engine
use_bought_engine_or_stock(i, t) ==
    quicksum([p \in P_WB |-> a[i][p][t]]) + s[i][t] >= buy_extra[i][t]

\* 4.11 an engine bought in t is used in t
use_bought_engine(i, t) ==
    quicksum([p \in P_WB |-> a[i][p][t]]) >= buy_extra[i][t]

\* 4.12 each extra engine is bought at most once (summed over the weeks fixed so far)
max_one_purchase_extra(i, t) ==
    quicksum([tau \in 1..t |-> buy_extra[i][tau]]) <= 1

\* 4.13 without the freeze of the stock flag
odd_week_engine_free_stock(i, t) ==
    (t > 1 /\ t % 2 # 0) =>
        /\ m[i][t] = 0
        /\ (i \in I_extra => buy_extra[i][t] = 0)
        /\ \A p \in P_WB : a[i][p][t] = a[i][p][t - 1]

\* 4.13 with the parity test inverted (t % 2 == 0)
odd_week_engine_even(i, t) ==
    (t > 1 /\ t % 2 = 0) =>
        /\ m[i][t] = 0
        /\ (i \in I_extra => buy_extra[i][t] = 0)
        /\ \A p \in P_WB : a[i][p][t] = a[i][p][t - 1]
        /\ s[i][t] = s[i][t - 1]

\* 4.13 odd weeks t = 3, 5, ...: the parts that mention engine i
odd_week_engine(i, t) ==
    (t > 1 /\ t % 2 # 0) =>
        /\ m[i][t] = 0
        /\ (i \in I_extra => buy_extra[i][t] = 0)
        /\ \A p \in P_WB : a[i][p][t] = a[i][p][t - 1]
        /\ s[i][t] = s[i][t - 1]

\* 4.13 odd weeks: the lease part
odd_week_lease(p, t) ==
    (t > 1 /\ t % 2 # 0) => ell[p][t] = ell[p][t - 1]

\* 4.14 strict cycle limit in every week
cycle_limit_strict_no_over(i, t) == y[i][t] <= C[i]

\* what 4.2 demands of aircraft p while ell[p][t] is still open
coverage_open(p, t) ==
    quicksum([i \in I_WB |-> a[i][p][t]]) <= 1

\* the constraints on m, r, buy_extra, s and a of engine i in week t, and the
\* part of 4.2 and 4.6 that the engines fixed so far decide
assignment_constraints(i, t) ==
    /\ (t = 1 => init_assign(i))
    /\ odd_week_engine(i, t)
    /\ \A p \in P_WB : continuity(i, p, t)
    /\ exclusive(i, t)
    /\ (i \in I_extra =>
          /\ no_stock_before_buy(i, t)
          /\ \A p \in P_WB : assign_only_if_bought(i, p, t)
          /\ use_bought_engine(i, t))
    /\ capacity(t)
    /\ \A p \in P_WB : coverage_open(p, t)

\* the constraints on y[i][t]: lower bound of the variable, 4.5 and 4.14
cycle_constraints(i, t) ==
    /\ y[i][t] >= 0
    /\ cycle_limit_strict(i, t)
    /\ cycle_limit_strict_no_over(i, t)

\* every constraint closed by the lease flags and the stock of week t
week_constraints(t) ==
    /\ \A p \in P_WB : coverage(p, t)
    /\ capacity(t)
    /\ S[t] >= 0
    /\ \A p \in P_WB : odd_week_lease(p, t)

\* ------------------------------------------------------------- warm_start
\* first owned engine with room for the cycles of aircraft p; 0 is None
\* 5.1 total cost = leases + purchases
objective(LeaseCost, BuyCost) ==
    quicksum([p \in P_WB |-> quicksum([t \in T |-> LeaseCost * ell[p][t]])])
    + quicksum([i \in I_extra |-> quicksum([t \in T |-> BuyCost * buy_extra[i][t]])])

elegido(cycles_greedy, p) ==
    LET ok == {i \in 1..n_aviones : cycles_greedy[i] + c[p] <= C[i]}
    IN IF ok = {} THEN 0 ELSE Min(ok)

greedy_step(st, t, p) ==
    LET e == elegido(st.cycles_greedy, p)
    IN IF e # 0
       THEN [a |-> [st.a EXCEPT ![e][p][t] = 1],
             ell |-> st.ell,
             cycles_greedy |-> [st.cycles_greedy EXCEPT ![e] = @ + c[p]]]
       ELSE [a |-> st.a,
             ell |-> [st.ell EXCEPT ![p][t] = 1],
             cycles_greedy |-> st.cycles_greedy]

\* the loops "for t in T: for p in P_WB", k counting the iterations done
RECURSIVE greedy_loop(_, _)
greedy_loop(st, k) ==
    IF k = H * NumAircraft THEN st
    ELSE greedy_loop(greedy_step(st, (k \div NumAircraft) + 1, (k % NumAircraft) + 1), k + 1)

\* params['y0'] after the call had cycles_greedy been the dict itself
y0_after_alias(orig, cycles_greedy) == cycles_greedy

\* params['y0'] after the call: cycles_greedy is a copy, y0 keeps its value
y0_after(orig, cycles_greedy) == orig

warm_start ==
    LET res == greedy_loop([a |-> ZeroA, ell |-> ZeroPT, cycles_greedy |-> y0], 0)
    IN /\ a_start' = res.a
       /\ ell_start' = res.ell
       /\ buy_start' = ZeroBuy
       /\ y0' = y0_after(y0, res.cycles_greedy)
       /\ ws_calls' = ws_calls + 1

\* ------------------------------------------------------------------- main
\* c, C and y0 as load_data derives them from the fleet rows
FleetInit(Rows) ==
    \E rows \in [P_WB -> Rows] :
        /\ c = [p \in P_WB |-> rows[p].rate]
        /\ C = ExtendC([p \in P_WB |-> rows[p].ceiling])
        /\ y0 = ExtendY0([p \in P_WB |-> rows[p].cycles])

\* the parameter set load_data returns: d and M_max are literals
ParamsInit(Rows) ==
    /\ FleetInit(Rows)
    /\ d = 18
    /\ M_max = 5

NoModel ==
    /\ a = ZeroA /\ s = ZeroIT /\ m = ZeroIT /\ r = ZeroIT /\ y = ZeroIT
    /\ S = ZeroT /\ ell = ZeroPT /\ buy_extra = ZeroBuy
    /\ week = 0 /\ eng = 0
    /\ a_start = [i \in I_WB |-> [p \in P_WB |-> [t \in T |-> GRB_UNDEFINED]]]
    /\ ell_start = [p \in P_WB |-> [t \in T |-> GRB_UNDEFINED]]
    /\ buy_start = [i \in I_extra |-> [t \in T |-> GRB_UNDEFINED]]
    /\ ws_calls = 0
    /\ SolCount = 0
    /\ calls = <<>>
    /\ status_printed = FALSE

Init ==
    /\ pc = "load_data"
    /\ files \in BOOLEAN
    /\ well_formed \in BOOLEAN
    /\ ParamsInit(FleetRows)
    /\ NoModel

\* load_data('Datos'): sys.exit(1) when a required file is missing; with the
\* files present it raises (KeyError for an Operation without rate or ceiling
\* family, IndexError for a missing price row, ValueError for an empty fleet)
\* and main, which catches nothing, dies with the traceback
LoadData ==
    /\ pc = "load_data"
    /\ calls' = Append(calls, "load_data")
    /\ pc' = IF ~files THEN "exit"
             ELSE IF ~well_formed THEN "raised"
             ELSE "build_model"
    /\ UNCHANGED <<paramVars, y0, schedVars, hintVars, SolCount, status_printed>>

BuildModel ==
    /\ pc = "build_model"
    /\ calls' = Append(calls, "build_model")
    /\ pc' = "warm_start"
    /\ UNCHANGED <<paramVars, y0, schedVars, hintVars, SolCount, status_printed>>

WarmStart ==
    /\ pc = "warm_start"
    /\ warm_start
    /\ calls' = Append(calls, "warm_start")
    /\ pc' = "optimize"
    /\ UNCHANGED <<paramVars, schedVars, SolCount, status_printed>>

\* the solver fixes m, r, buy_extra, s and a of the next engine in the open
\* week; y follows from the equality 4.4.  A constraint is tested as soon as
\* the variables it mentions are fixed.
FixEngine ==
    /\ pc = "optimize"
    /\ week < H
    /\ eng < NumEngines
    /\ eng' = eng + 1
    /\ UNCHANGED <<pc, paramVars, y0, S, ell, week, hintVars, runVars>>
    /\ \E t \in {week + 1} : \E i \in {eng + 1} :
       \E mi \in {0, 1} :
          /\ m' = [m EXCEPT ![i][t] = mi]
          /\ \E ri \in {0, 1} :
             /\ r' = [r EXCEPT ![i][t] = ri]
             /\ maint_duration(i, t)'
             /\ \E bi \in (IF i \in I_extra THEN {0, 1} ELSE {0}) :
                /\ buy_extra' = IF i \in I_extra
                                THEN [buy_extra EXCEPT ![i][t] = bi]
                                ELSE buy_extra
                /\ (i \in I_extra => max_one_purchase_extra(i, t)')
                /\ \E si \in {0, 1} : \E ai \in [P_WB -> {0, 1}] :
                   /\ s' = [s EXCEPT ![i][t] = si]
                   /\ a' = [a EXCEPT ![i] = [p \in P_WB |-> [@[p] EXCEPT ![t] = ai[p]]]]
                   /\ assignment_constraints(i, t)'
                   /\ y' = [y EXCEPT ![i][t] =
                              cycles_rhs(i, t, quicksum([p \in P_WB |-> c[p] * ai[p]]))]
                   /\ cycle_constraints(i, t)'

\* the solver fixes ell and S of the open week
CloseWeek ==
    /\ pc = "optimize"
    /\ week < H
    /\ eng = NumEngines
    /\ week' = week + 1
    /\ eng' = 0
    /\ UNCHANGED <<pc, paramVars, y0, hintVars, runVars>>
    /\ \E t \in {week + 1} :
          \E li \in [P_WB -> {0, 1}] :
             /\ ell' = [p \in P_WB |-> [ell[p] EXCEPT ![t] = li[p]]]
             /\ S' = [S EXCEPT ![t] = stock_rhs(t)]
             /\ UNCHANGED <<a, s, m, r, y, buy_extra>>
             /\ week_constraints(t)'

\* model.optimize() returns with a solution
OptimizeReturns ==
    /\ pc = "optimize"
    /\ week = H
    /\ SolCount' = 1
    /\ calls' = Append(calls, "optimize")
    /\ pc' = "check_solution"
    /\ UNCHANGED <<paramVars, y0, schedVars, hintVars, status_printed>>

\* model.optimize() returns without a solution (the model is infeasible or
\* the solver stopped before it found one); no variable has a value
OptimizeFindsNothing ==
    /\ pc = "optimize"
    /\ week = 0 /\ eng = 0
    /\ SolCount' = 0
    /\ calls' = Append(calls, "optimize")
    /\ pc' = "check_solution"
    /\ UNCHANGED <<paramVars, y0, schedVars, hintVars, status_printed>>

\* if model.SolCount >= 0
has_solution_any == SolCount >= 0

\* if model.SolCount > 0
has_solution == SolCount > 0

WriteReports ==
    /\ pc = "check_solution"
    /\ has_solution
    /\ calls' = Append(calls, "write_reports")
    /\ pc' = "done"
    /\ UNCHANGED <<paramVars, y0, schedVars, hintVars, SolCount, status_printed>>

\* else: print(..., model.status)
PrintStatus ==
    /\ pc = "check_solution"
    /\ ~has_solution
    /\ status_printed' = TRUE
    /\ pc' = "done"
    /\ UNCHANGED <<paramVars, y0, schedVars, hintVars, SolCount, calls>>

Next ==
    \/ LoadData
    \/ BuildModel
    \/ WarmStart
    \/ FixEngine
    \/ CloseWeek
    \/ OptimizeReturns
    \/ OptimizeFindsNothing
    \/ WriteReports
    \/ PrintStatus

Spec == Init /\ [][Next]_vars

\* ------------------------- build_model called on a caller's parameter set
InitBuild ==
    /\ pc = "build_model"
    /\ files = TRUE
    /\ well_formed = TRUE
    /\ FleetInit(FleetRows)
    /\ \/ (d \in Durations /\ M_max \in BayCapacities)
       \/ (d = 18 /\ M_max = 5)
    /\ NoModel

NextBuild ==
    \/ BuildModel
    \/ WarmStart
    \/ FixEngine
    \/ CloseWeek

SpecBuild == InitBuild /\ [][NextBuild]_vars

\* --------------------------------------------- warm_start called repeatedly
InitWarm ==
    /\ pc = "warm_start"
    /\ files = TRUE
    /\ well_formed = TRUE
    /\ ParamsInit(WarmRows)
    /\ NoModel

CallWarmStart ==
    /\ pc = "warm_start"
    /\ ws_calls < MaxCalls
    /\ warm_start
    /\ UNCHANGED <<pc, paramVars, schedVars, runVars>>

NextWarm == CallWarmStart

SpecWarm == InitWarm /\ [][NextWarm]_vars

\* ================================================================ claims
OwnEngines == 1..n_aviones
FixedWeeks == 1..week
InstalledOn(i, t) == {p \in P_WB : a[i][p][t] = 1}
EnginesOn(p, t) == {i \in I_WB : a[i][p][t] = 1}
BoughtBy(i, t) == Cardinality({tau \in 1..t : buy_extra[i][tau] = 1})

\* C1: in a complete schedule that satisfies the model, an owned engine is
\* never installed on an aircraft other than its home aircraft.
C1_OwnEngineOnlyAtHome ==
    week = H =>
        \A i \in OwnEngines : \A p \in P_WB : \A t \in T :
            p # i => a[i][p][t] = 0

\* the greedy the claim C2 describes: aircraft p only ever tests and charges
\* its own engine p
home_step(st, t, p) ==
    IF st.balance[p] + c[p] <= C[p]
    THEN [a |-> [st.a EXCEPT ![p][p][t] = 1],
          ell |-> st.ell,
          balance |-> [st.balance EXCEPT ![p] = @ + c[p]]]
    ELSE [a |-> st.a,
          ell |-> [st.ell EXCEPT ![p][t] = 1],
          balance |-> st.balance]

RECURSIVE home_loop(_, _)
home_loop(st, k) ==
    IF k = H * NumAircraft THEN st
    ELSE home_loop(home_step(st, (k \div NumAircraft) + 1, (k % NumAircraft) + 1), k + 1)

home_greedy == home_loop([a |-> ZeroA, ell |-> ZeroPT, balance |-> y0], 0)

\* C2: the hints warm_start leaves are those of the home-only greedy: a[p,p,t]
\* hinted 1 iff engine p's own balance has room, lease[p,t] hinted 1 otherwise,
\* and no hint a[i,p,t] = 1 with i # p.
C2_WarmStartIsHomeGreedy ==
    ws_calls >= 1 =>
        /\ a_start = home_greedy.a
        /\ ell_start = home_greedy.ell
        /\ \A i \in I_WB : \A p \in P_WB : \A t \in T :
              i # p => a_start[i][p][t] # 1

\* C3: in the hints warm_start leaves, no owned engine is hinted as installed
\* on two aircraft in the same week.
C3_HintOneAircraftPerEngine ==
    ws_calls >= 1 =>
        \A i \in OwnEngines : \A t \in T :
            Cardinality({p \in P_WB : a_start[i][p][t] = 1}) <= 1

\* C4: a call of warm_start leaves params['y0'] unchanged, and a call that
\* follows another call leaves every hint on a, lease and buy as it found it.
C4_WarmStartIdempotent ==
    [][ /\ y0' = y0
        /\ (ws_calls >= 1 =>
              /\ a_start' = a_start
              /\ ell_start' = ell_start
              /\ buy_start' = buy_start) ]_vars

\* C4 witness: warm_start has run twice and left both install and lease hints.
C4_Witness ==
    /\ ws_calls >= 2
    /\ \E p \in P_WB : \E t \in T : ell_start[p][t] = 1
    /\ \E i \in I_WB : \E p \in P_WB : \E t \in T : a_start[i][p][t] = 1

\* C5: in every fixed week an owned engine is in exactly one of the states
\* installed / in maintenance / in stock, and for an extra engine the number
\* of states it is in equals bought_by, so it is in none before its purchase.
C5_ExactlyOneState ==
    \A t \in FixedWeeks : \A i \in I_WB :
        /\ Cardinality(InstalledOn(i, t)) + r[i][t] + s[i][t]
              = (IF i \in I_extra THEN BoughtBy(i, t) ELSE 1)
        /\ (i \in I_extra /\ BoughtBy(i, t) = 0) =>
              (InstalledOn(i, t) = {} /\ r[i][t] = 0 /\ s[i][t] = 0)

\* C5 witness: a complete schedule in which an extra engine is bought after
\* week 1 and an owned engine spends a week in stock.
C5_Witness ==
    /\ week = H
    /\ \E i \in I_extra : \E t \in 2..H : buy_extra[i][t] = 1
    /\ \E i \in OwnEngines : \E t \in T : s[i][t] = 1

\* C6: in every fixed week each aircraft either carries exactly one engine and
\* is not leased, or carries no engine and is leased.
C6_Coverage ==
    \A t \in FixedWeeks : \A p \in P_WB :
        \/ (Cardinality(EnginesOn(p, t)) = 1 /\ ell[p][t] = 0)
        \/ (EnginesOn(p, t) = {} /\ ell[p][t] = 1)

\* C6 witness: a complete schedule with a leased aircraft-week and with an
\* aircraft-week served by an extra engine.
C6_Witness ==
    /\ week = H
    /\ \E p \in P_WB : \E t \in T : ell[p][t] = 1
    /\ \E i \in I_extra : \E p \in P_WB : \E t \in T : a[i][p][t] = 1

\* C7: each extra engine is bought in at most one week, and in the week it is
\* bought it is installed on an aircraft (not in stock, not in maintenance).
C7_PurchaseRule ==
    \A i \in I_extra :
        /\ Cardinality({t \in FixedWeeks : buy_extra[i][t] = 1}) <= 1
        /\ \A t \in FixedWeeks :
              buy_extra[i][t] = 1 =>
                 (InstalledOn(i, t) # {} /\ s[i][t] = 0 /\ r[i][t] = 0)

\* C7 witness: a complete schedule in which an extra engine was bought.
C7_Witness ==
    /\ week = H
    /\ \E i \in I_extra : \E t \in T :
          buy_extra[i][t] = 1 /\ InstalledOn(i, t) # {}

\* cycles engine i gains in week t
Gained(i, t) == quicksum([p \in P_WB |-> IF a[i][p][t] = 1 THEN c[p] ELSE 0])

\* C8: y follows the reset bookkeeping (y0 plus the gain in week 1; afterwards
\* the previous balance plus the gain, or the gain alone when start[i,t-d] = 1)
\* and never exceeds C[i], for owned and extra engines, in maintenance or not.
C8_CycleCeiling ==
    \A t \in FixedWeeks : \A i \in I_WB :
        /\ y[i][t] = (IF t = 1 THEN y0[i] + Gained(i, 1)
                      ELSE IF t > d /\ m[i][t - d] = 1 THEN Gained(i, t)
                      ELSE y[i][t - 1] + Gained(i, t))
        /\ y[i][t] <= C[i]

\* C8 witness: a complete schedule in which an extra engine is in maintenance
\* and an engine that had flown is back on an aircraft with a reset balance.
C8_Witness ==
    /\ week = H
    /\ \E i \in I_extra : \E t \in T : r[i][t] = 1 /\ y[i][t] > 0
    /\ \E i \in I_WB : \E t \in (d + 1)..H :
          /\ m[i][t - d] = 1
          /\ y[i][t - 1] > 0
          /\ InstalledOn(i, t) # {}
          /\ y[i][t] = Gained(i, t)

\* C9: a start of engine i in week tau makes it active in every week of
\* [tau, tau+d-1] inside the horizon, it is inactive in every week that no
\* window covers, and two windows of one engine never overlap.
C9_MaintenanceDuration ==
    \A i \in I_WB :
        /\ \A tau \in FixedWeeks :
              m[i][tau] = 1 =>
                 \A t \in FixedWeeks : (tau <= t /\ t <= tau + d - 1) => r[i][t] = 1
        /\ \A t \in FixedWeeks :
              (\A tau \in FixedWeeks : (tau <= t /\ t <= tau + d - 1) => m[i][tau] = 0)
                 => r[i][t] = 0
        /\ \A tau1 \in FixedWeeks : \A tau2 \in FixedWeeks :
              (tau1 < tau2 /\ m[i][tau1] = 1 /\ m[i][tau2] = 1) => tau2 >= tau1 + d

\* C9 witness: a complete schedule with a window of two weeks that ends inside
\* the horizon.
C9_Witness ==
    /\ week = H
    /\ d = 2
    /\ \E i \in I_WB : m[i][2] = 1 /\ r[i][2] = 1 /\ r[i][3] = 1 /\ r[i][4] = 0

\* C10: in every odd week t > 1 no engine starts maintenance, no extra engine
\* is bought, and lease flags, assignments and stock flags repeat week t-1.
C10_OddWeekReplication ==
    \A t \in FixedWeeks :
        (t > 1 /\ t % 2 = 1) =>
            /\ \A i \in I_WB : m[i][t] = 0
            /\ \A i \in I_extra : buy_extra[i][t] = 0
            /\ \A p \in P_WB : ell[p][t] = ell[p][t - 1]
            /\ \A i \in I_WB : \A p \in P_WB : a[i][p][t] = a[i][p][t - 1]
            /\ \A i \in I_WB : s[i][t] = s[i][t - 1]

\* C10 witness: a complete schedule whose week 2 changed week 1 (a start, a
\* lease and a purchase) and whose week 3 repeats it.
C10_Witness ==
    /\ week = H
    /\ \E i \in I_WB : m[i][2] = 1
    /\ \E p \in P_WB : ell[p][2] = 1 /\ ell[p][3] = 1
    /\ \E i \in I_extra : \E p \in P_WB : buy_extra[i][2] = 1 /\ a[i][p][3] = 1

\* C13: in every fixed odd week t > 1 the maintenance flag of every engine
\* repeats week t-1, no engine starts maintenance in week 1, and when d is odd
\* no start in week tau is followed by a fixed week tau + d (a window never
\* ends inside the schedule).
C13_NoCompletionWhenOddDuration ==
    \A i \in I_WB :
        /\ \A t \in FixedWeeks : (t > 1 /\ t % 2 = 1) => r[i][t] = r[i][t - 1]
        /\ (week >= 1 => m[i][1] = 0)
        /\ (d % 2 = 1 => \A tau \in FixedWeeks : m[i][tau] = 1 => tau + d > week)

\* C13 witness: a complete schedule with odd d in which an engine starts
\* maintenance (its window runs past the horizon) and its aircraft is leased.
C13_Witness ==
    /\ week = H
    /\ d % 2 = 1
    /\ \E i \in I_WB : \E p \in P_WB : \E tau \in 2..H :
          /\ a[i][p][tau - 1] = 1
          /\ m[i][tau] = 1 /\ r[i][tau] = 1
          /\ ell[p][tau] = 1

\* aircraft that carried an engine in week t-1 and no longer carry that engine
\* in week t (they are leased or carry another engine)
ChangedIn(t) ==
    {p \in P_WB : EnginesOn(p, t - 1) # {} /\ EnginesOn(p, t) # EnginesOn(p, t - 1)}

\* C14: an engine leaves its aircraft between weeks t-1 and t only by starting
\* maintenance in t; so the aircraft whose engine is replaced by a lease or by
\* another engine in week t each lost an engine that starts maintenance in t,
\* they are at most M_max, none in an odd week, and with M_max = 0 every
\* aircraft keeps its week-1 engine and is never leased.
C14_ChangeOnlyOnMaintenanceStart ==
    /\ \A t \in FixedWeeks \ {1} :
          /\ \A i \in I_WB : \A p \in P_WB :
                (a[i][p][t - 1] = 1 /\ a[i][p][t] = 0) => m[i][t] = 1
          /\ \A p \in ChangedIn(t) : \E i \in EnginesOn(p, t - 1) : m[i][t] = 1
          /\ Cardinality(ChangedIn(t)) <= M_max
          /\ (t % 2 = 1 => ChangedIn(t) = {})
    /\ M_max = 0 =>
          \A t \in FixedWeeks : \A p \in P_WB :
              EnginesOn(p, t) = EnginesOn(p, 1) /\ ell[p][t] = 0

\* C14 witness: a complete schedule in which one aircraft goes from its engine
\* to a lease and one goes from its engine to another engine.
C14_Witness ==
    /\ week = H
    /\ \E t \in 2..H : \E p \in ChangedIn(t) : ell[p][t] = 1
    /\ \E t \in 2..H : \E p \in ChangedIn(t) : EnginesOn(p, t) # {}

\* the order in which one run of main() calls its steps
PipelineOrder == <<"load_data", "build_model", "warm_start", "optimize", "write_reports">>
Called(f) == \E k \in 1..Len(calls) : calls[k] = f

\* C12: the calls of a run are a prefix of load_data, build_model, warm_start,
\* optimize, write_reports (so write_reports is called at most once and only
\* after optimize returned); write_reports is called only with SolCount > 0;
\* with no solution the run can only go on by printing the status and ends
\* with that print and no report; after a failed load_data nothing else is
\* called.
C12_PipelineOrder ==
    /\ Len(calls) <= Len(PipelineOrder)
    /\ calls = SubSeq(PipelineOrder, 1, Len(calls))
    /\ (Called("write_reports") => SolCount > 0)
    /\ ((pc = "check_solution" /\ SolCount = 0) =>
           (ENABLED PrintStatus /\ ~ENABLED WriteReports))
    /\ ((pc = "done" /\ SolCount = 0) =>
           (status_printed /\ ~Called("write_reports")))
    /\ (status_printed => (SolCount = 0 /\ Called("optimize")))
    /\ ((~files \/ ~well_formed) => ~Called("build_model"))
    /\ (pc = "exit" => (~files /\ calls = <<"load_data">>))
    /\ (pc = "raised" => (files /\ ~well_formed /\ calls = <<"load_data">>))

\* C12 witness: a run that went through every step and wrote its report with
\* a solution in hand.
C12_Witness ==
    /\ pc = "done"
    /\ calls = PipelineOrder
    /\ SolCount > 0
    /\ week = H
    /\ ~status_printed

\* engine i follows the baseline in week t: an owned engine is on its home
\* aircraft, an extra engine is not bought; no start, no maintenance, no stock
BaselineEngine(i, t) ==
    /\ \A p \in P_WB : a[i][p][t] = (IF p = i THEN 1 ELSE 0)
    /\ s[i][t] = 0 /\ m[i][t] = 0 /\ r[i][t] = 0
    /\ (i \in I_extra => buy_extra[i][t] = 0)

\* everything the solver has fixed so far follows the baseline
OnBaseline ==
    /\ \A t \in FixedWeeks :
          /\ \A i \in I_WB : BaselineEngine(i, t)
          /\ \A p \in P_WB : ell[p][t] = 0
    /\ \A i \in 1..eng : BaselineEngine(i, week + 1)

\* every owned engine can fly the whole horizon on its home aircraft
HasRoom == \A i \in OwnEngines : y0[i] + H * c[i] <= C[i]

\* C11: when y0[i] + H*c[i] <= C[i] for every owned engine, no constraint
\* rejects the next step of the baseline schedule (home engine installed, no
\* start, no purchase, no lease), whose cost is 0; and no schedule costs less
\* than 0 whatever the (non-negative) prices are.
C11_ZeroCostBaseline ==
    /\ (pc = "optimize" /\ HasRoom /\ OnBaseline) =>
          /\ (week < H => ENABLED ((FixEngine \/ CloseWeek) /\ OnBaseline'))
          /\ \A LeaseCost \in Prices : \A BuyCost \in Prices :
                objective(LeaseCost, BuyCost) = 0
    /\ \A LeaseCost \in Prices : \A BuyCost \in Prices :
          objective(LeaseCost, BuyCost) >= 0

\* C11 witness: the complete baseline schedule, reached with every owned
\* engine ending the horizon exactly at its ceiling or below it.
C11_Witness ==
    /\ pc = "optimize"
    /\ week = H
    /\ HasRoom
    /\ OnBaseline
    /\ \A i \in OwnEngines : y[i][H] = y0[i] + H * c[i]
    /\ objective(1, 1) = 0

=============================================================================
